---------------------------- MODULE Spec2Model ----------------------------
(***************************************************************************)
(* A model of jellyfin_time_limiter.py: a cron-style script that resolves  *)
(* one Jellyfin account, sums that account's playback time for today,      *)
(* and switches the account's library access on or off.                    *)
(*                                                                         *)
(* Spec     the script run again and again against one server: the         *)
(*          account's policy and the usage plugin's data persist between   *)
(*          runs, everything else is rebuilt by each run.                  *)
(* LogSpec  the log() function under arbitrary messages, across the        *)
(*          processes that share the log file.                             *)
(***************************************************************************)
EXTENDS Integers, Sequences, FiniteSets, TLC

VARIABLES
    \* ---- the process (one run of the script)
    pc,                        \* position in the script
    exit_code,                 \* sys.exit status; -1 while the run is going
    JELLYFIN_TOKEN,            \* "" models an unset or empty variable
    USER_NAME,                 \* "" models an unset or empty variable
    JELLYFIN_MAX_WATCH_TIME_MINUTES,
    target_user_id,            \* "" models None
    ENABLE_ACCESS,
    total_watch_time_minutes,  \* [known |-> FALSE] is None
    current_policy,
    needs_update,
    calls,                     \* the remote calls of this run, in order
    logCalls,                  \* the messages this run handed to log()
    \* ---- the server, which outlives a run
    srvUser,                   \* the account as GET /Users/{id} returns it
    srvUsage,                  \* what the usage plugin answers today
    \* ---- history
    prev,                      \* what the last run left, while nobody touched the server
    \* ---- log() and the log file
    logFile,                   \* characters of jellyfin_time_limiter.log
    fileExists,
    last_log_message,          \* <<>> is None, <<m>> is the cached message m
    stderr,                    \* lines printed by the fallback
    emitted                    \* every entry log() put out, file or stderr, in order

procVars == <<pc, exit_code, JELLYFIN_TOKEN, USER_NAME,
              JELLYFIN_MAX_WATCH_TIME_MINUTES, target_user_id, ENABLE_ACCESS,
              total_watch_time_minutes, current_policy, needs_update, calls,
              logCalls>>
srvVars == <<srvUser, srvUsage>>
logVars == <<logFile, fileExists, last_log_message, stderr, emitted>>
vars == <<procVars, srvVars, prev, logVars>>

---------------------------------------------------------------------------
\* Bounds of the model.

\* Most rows the usage plugin holds for today.
MaxRows == 2
\* Largest configured threshold, in minutes; the smallest is -1.
MaxThreshold == 1
\* Most entries log() is followed through in LogSpec.
MaxLogCalls == 4

---------------------------------------------------------------------------
\* Values on the wire.

\* HTTP statuses a call can come back with.
Statuses == {200, 204, 500}

Thresholds == -1 .. MaxThreshold

\* A JSON value in a result row: a string, a number or null.
Str(text) == [kind |-> "str", text |-> text]
Num(n) == [kind |-> "num", value |-> n]
Null == [kind |-> "null"]

DigitValue ==
    [c \in {"0", "1", "2", "3", "4", "5", "6", "7", "8", "9"} |->
        CASE c = "0" -> 0 [] c = "1" -> 1 [] c = "2" -> 2 [] c = "3" -> 3
          [] c = "4" -> 4 [] c = "5" -> 5 [] c = "6" -> 6 [] c = "7" -> 7
          [] c = "8" -> 8 [] c = "9" -> 9]

\* The value of a string of decimal digits, most significant first.
RECURSIVE DecimalValue(_)
DecimalValue(text) ==
    IF text = <<>> THEN 0
    ELSE 10 * DecimalValue(SubSeq(text, 1, Len(text) - 1))
         + DigitValue[text[Len(text)]]

IsDigits(text) ==
    /\ Len(text) > 0
    /\ \A i \in 1 .. Len(text) : text[i] \in DOMAIN DigitValue

\* float(duration_str): [ok |-> TRUE, value |-> v], or [ok |-> FALSE] where
\* Python raises ValueError (a string that is no number) or TypeError (None).
\* Strings are plain decimal integers, with an optional leading minus.
FloatOf(cell) ==
    CASE cell.kind = "num" -> [ok |-> TRUE, value |-> cell.value]
      [] cell.kind = "null" -> [ok |-> FALSE]
      [] cell.kind = "str" ->
            IF IsDigits(cell.text)
            THEN [ok |-> TRUE, value |-> DecimalValue(cell.text)]
            ELSE IF Len(cell.text) > 1 /\ cell.text[1] = "-" /\ IsDigits(Tail(cell.text))
            THEN [ok |-> TRUE, value |-> 0 - DecimalValue(Tail(cell.text))]
            ELSE [ok |-> FALSE]

\* The rows the plugin may hold: a numeric duration, a null, and a row of
\* two strings, of which the first is no number and the second is one.
PlaybackRows ==
    { <<Num(60)>>,
      <<Null>>,
      <<Str(<<"b", "a", "d">>), Str(<<"1", "2", "0">>)>> }

\* The column lists the plugin may answer with (key "colums"), or none.
ColumnLists ==
    { <<>>,
      <<"PlayDuration">>,
      <<"ROWID", "PlayDuration">>,
      <<"ROWID", "UserId">> }

\* A usage response body: a JSON object with or without "colums" and "results".
EmptyObject == [k \in {} |-> TRUE]
UsageBodies ==
    {EmptyObject}
    \cup {[colums |-> c] : c \in ColumnLists}
    \cup {[results |-> <<>>]}
    \cup {[colums |-> c, results |-> <<>>] : c \in ColumnLists}

\* dict.get(key, default)
Get(d, key, default) == IF key \in DOMAIN d THEN d[key] ELSE default


---------------------------------------------------------------------------
\* The server.

FolderLists == {<<>>, <<"x">>}

\* The Policy object of the account, each key present or not.
Policies ==
    {EmptyObject}
    \cup {[EnableAllFolders |-> b] : b \in BOOLEAN}
    \cup {[EnabledFolders |-> f] : f \in FolderLists}
    \cup {[EnableAllFolders |-> b, EnabledFolders |-> f] :
            b \in BOOLEAN, f \in FolderLists}

\* The body of GET /Users/{id}: the account, with or without its Policy.
ServerUsers == {EmptyObject} \cup {[Policy |-> p] : p \in Policies}

\* The server stores the fields of an accepted policy update over the
\* fields it holds.
ApplyPolicy(user, payload) ==
    LET old == Get(user, "Policy", EmptyObject)
    IN  [Policy |-> [k \in DOMAIN old \cup DOMAIN payload |->
                        IF k \in DOMAIN payload THEN payload[k] ELSE old[k]]]

\* The accounts GET /Users may list. Ids are the server's GUIDs, never empty.
User(name, id) == [Name |-> name, Id |-> id]
UserLists ==
    { <<>>,
      <<User("Kid", "u2")>>,
      <<User("Kid", "u2"), User("kid", "u1"), User("kid", "u3")>> }

---------------------------------------------------------------------------
\* The script's pure parts.

\* A message handed to log(): the fixed text and the formatted value.
Msg(text, arg) == [text |-> text, arg |-> arg]

\* for user in users: if user["Name"] == USER_NAME: ...; break
RECURSIVE FindUser(_, _)
FindUser(users, name) ==
    IF users = <<>> THEN ""
    ELSE IF Head(users).Name = name THEN Head(users).Id
    ELSE FindUser(Tail(users), name)

\* columns.index("PlayDuration"): the first position, from 0; -1 stands for
\* the ValueError.
RECURSIVE IndexFrom(_, _, _)
IndexFrom(columns, name, i) ==
    IF i > Len(columns) THEN -1
    ELSE IF columns[i] = name THEN i - 1
    ELSE IndexFrom(columns, name, i + 1)

ColumnIndex(columns, name) == IndexFrom(columns, name, 1)

\* if len(row) > play_duration_index
RowLongEnough(row, index) == Len(row) > index

\* The loop with break where the script has continue: it stops at the first
\* value that does not parse.
RECURSIVE SumDurationsUntilBadRow(_, _)
SumDurationsUntilBadRow(results, index) ==
    IF results = <<>> THEN 0
    ELSE LET row == Head(results)
             rest == SumDurationsUntilBadRow(Tail(results), index)
         IN  IF Len(row) <= index THEN rest
             ELSE IF FloatOf(row[index + 1]).ok
             THEN FloatOf(row[index + 1]).value + rest
             ELSE 0

\* The loop over results: the sum of the values that parse.
RECURSIVE SumDurations(_, _)
SumDurations(results, index) ==
    IF results = <<>> THEN 0
    ELSE LET row == Head(results)
             rest == SumDurations(Tail(results), index)
         IN  IF RowLongEnough(row, index) /\ FloatOf(row[index + 1]).ok
             THEN FloatOf(row[index + 1]).value + rest
             ELSE rest

\* The loop over results: the warnings it logs, in order.
RECURSIVE ParseWarnings(_, _)
ParseWarnings(results, index) ==
    IF results = <<>> THEN <<>>
    ELSE LET row == Head(results)
             rest == ParseWarnings(Tail(results), index)
         IN  IF RowLongEnough(row, index) /\ ~FloatOf(row[index + 1]).ok
             THEN <<Msg("Warning: Could not parse duration value: ",
                        ToString(row[index + 1]))>> \o rest
             ELSE rest

None == [known |-> FALSE]
\* total_watch_time_minutes = seconds / 60, kept as the seconds it came from.
Minutes(seconds) == [known |-> TRUE, seconds |-> seconds]

\* total_watch_time_minutes < JELLYFIN_MAX_WATCH_TIME_MINUTES
UnderLimit(seconds, threshold) == seconds < 60 * threshold

\* The failure branch of the script's fail-closed variant.
QueryFailedClosed(status) ==
    [enable |-> FALSE, total |-> None,
     logs |-> << Msg("Warning: Could not fetch activity data: ", ToString(status)),
                 Msg("Response: ", "body"),
                 Msg("API error - defaulting to disabled access (fail-closed)", "") >>]

\* Lines 154-159: the query came back with a status other than 200.
QueryFailed(status) ==
    [enable |-> TRUE, total |-> None,
     logs |-> << Msg("Warning: Could not fetch activity data: ", ToString(status)),
                 Msg("Response: ", "body"),
                 Msg("API error - defaulting to enabled access (fail-permissive)", "") >>]

\* Lines 168-172: no rows.
NoActivity ==
    [enable |-> TRUE, total |-> Minutes(0), logs |-> <<>>]

\* The no-columns branch defaulting to enabled, as the no-rows branch does.
NoColumnsPermissive(body) ==
    [enable |-> TRUE, total |-> None,
     logs |-> << Msg("Error: No columns found in response", ""),
                 Msg("Response structure: ", ToString(DOMAIN body)) >>]

\* Lines 173-177: rows, and no column list.
NoColumns(body) ==
    [enable |-> FALSE, total |-> None,
     logs |-> << Msg("Error: No columns found in response", ""),
                 Msg("Response structure: ", ToString(DOMAIN body)) >>]

\* Lines 182-187: rows and columns, PlayDuration not among them.
NoDurationColumn(columns) ==
    [enable |-> FALSE, total |-> None,
     logs |-> << Msg("Error: PlayDuration column not found in response", ""),
                 Msg("Available columns: ", ToString(columns)),
                 Msg("Response data: ", "body") >>]

\* Lines 189-203: the durations are summed and compared with the limit.
Summed(results, index, threshold) ==
    [enable |-> UnderLimit(SumDurations(results, index), threshold),
     total |-> Minutes(SumDurations(results, index)),
     logs |-> ParseWarnings(results, index)]

\* Lines 154-203: what the usage response decides.
UsageDecision(status, body, threshold) ==
    IF status # 200
    THEN QueryFailed(status)
    ELSE LET columns == Get(body, "colums", <<>>)
             results == Get(body, "results", <<>>)
             index == ColumnIndex(columns, "PlayDuration")
         IN  IF results = <<>> THEN NoActivity
             ELSE IF columns = <<>> THEN NoColumns(body)
             ELSE IF index = -1 THEN NoDurationColumn(columns)
             ELSE Summed(results, index, threshold)

\* The comparison with the empty list written "is not []", which is always
\* true: disabling always needs an update.
NeedsUpdateIdentityTest(enable, policy) ==
    LET current_enable_all == Get(policy, "EnableAllFolders", TRUE)
    IN  IF enable THEN ~current_enable_all ELSE TRUE

\* The disabling branch looking at EnableAllFolders alone.
NeedsUpdateIgnoringFolders(enable, policy) ==
    LET current_enable_all == Get(policy, "EnableAllFolders", TRUE)
    IN  IF enable THEN ~current_enable_all ELSE current_enable_all

\* Lines 216-229.
NeedsUpdate(enable, policy) ==
    LET current_enable_all == Get(policy, "EnableAllFolders", TRUE)
        current_enabled_folders == Get(policy, "EnabledFolders", <<>>)
    IN  IF enable
        THEN ~current_enable_all
        ELSE current_enable_all \/ current_enabled_folders # <<>>

\* The update without lines 239-241: EnabledFolders is never cleared.
PolicyPayloadKeepingFolders(enable) ==
    [AuthenticationProviderId |->
        "Jellyfin.Server.Implementations.Users.DefaultAuthenticationProvider",
     PasswordResetProviderId |->
        "Jellyfin.Server.Implementations.Users.DefaultPasswordResetProvider",
     EnableAllFolders |-> enable]

\* Lines 233-241: the body of the policy update.
PolicyPayload(enable) ==
    LET policy ==
            [AuthenticationProviderId |->
                "Jellyfin.Server.Implementations.Users.DefaultAuthenticationProvider",
             PasswordResetProviderId |->
                "Jellyfin.Server.Implementations.Users.DefaultPasswordResetProvider",
             EnableAllFolders |-> enable]
    IN  IF ~enable
        THEN [k \in DOMAIN policy \cup {"EnabledFolders"} |->
                IF k = "EnabledFolders" THEN <<>> ELSE policy[k]]
        ELSE policy

\* The update's status tested like every other call's.
UpdateRejectedUnless200(status) == status # 200

\* if response.status != 204 and response.status != 200
UpdateRejected(status) == status # 204 /\ status # 200


---------------------------------------------------------------------------
\* One run of the script.

Tokens == {"", "secret"}
UserNames == {"", "kid"}

\* Remote calls, as recorded in calls.
GetUsersCall(status, users) ==
    [req |-> "GET /Users", status |-> status, users |-> users]
QueryCall(status, body) ==
    [req |-> "POST /user_usage_stats/submit_custom_query", status |-> status,
     body |-> body]
GetUserCall(status, user) ==
    [req |-> "GET /Users/{id}", status |-> status, user |-> user]
PolicyCall(status, payload, applied) ==
    [req |-> "POST /Users/{id}/Policy", status |-> status, payload |-> payload,
     applied |-> applied]

\* sys.exit(code)
Exit(code) ==
    /\ pc' = "exited"
    /\ exit_code' = code

\* What a later run may rely on: this run ended with status 0 and the server
\* stored the update it accepted, if any. The usage query's status is kept.
Summary ==
    IF /\ exit_code = 0
       /\ \A i \in 1 .. Len(calls) :
            calls[i].req = "POST /Users/{id}/Policy" => calls[i].applied
    THEN [ok |-> TRUE, status |-> calls[2].status, posted |-> Len(calls) = 4]
    ELSE [ok |-> FALSE]

\* Lines 9-24: the process starts, reads its environment and validates it.
StartRun ==
    /\ pc = "idle"
    /\ IF JELLYFIN_TOKEN = "" \/ USER_NAME = ""
       THEN Exit(1)
       ELSE pc' = "get_users" /\ UNCHANGED exit_code
    /\ UNCHANGED <<JELLYFIN_TOKEN, USER_NAME, JELLYFIN_MAX_WATCH_TIME_MINUTES,
                   target_user_id, ENABLE_ACCESS, total_watch_time_minutes,
                   current_policy, needs_update, calls, logCalls>>
    /\ UNCHANGED <<srvVars, prev, logVars>>

\* Lines 106-124.
GetUsers ==
    /\ pc = "get_users"
    /\ \E status \in Statuses, users \in UserLists :
        /\ status # 200 => users = <<>>
        /\ calls' = Append(calls, GetUsersCall(status, users))
        /\ IF status # 200
           THEN /\ logCalls' = Append(logCalls,
                        Msg("Error fetching users: ", ToString(status)))
                /\ Exit(1)
                /\ UNCHANGED target_user_id
           ELSE /\ target_user_id' = FindUser(users, USER_NAME)
                /\ IF target_user_id' = ""
                   THEN /\ logCalls' = Append(logCalls,
                                Msg("Error: User not found: ", USER_NAME))
                        /\ Exit(1)
                   ELSE /\ pc' = "query"
                        /\ UNCHANGED <<exit_code, logCalls>>
    /\ UNCHANGED <<JELLYFIN_TOKEN, USER_NAME, JELLYFIN_MAX_WATCH_TIME_MINUTES,
                   ENABLE_ACCESS, total_watch_time_minutes, current_policy,
                   needs_update>>
    /\ UNCHANGED <<srvVars, prev, logVars>>

\* Lines 126-203.
QueryUsage ==
    /\ pc = "query"
    /\ \E status \in Statuses :
        LET body == IF status = 200 THEN srvUsage ELSE EmptyObject
            decision == UsageDecision(status, body, JELLYFIN_MAX_WATCH_TIME_MINUTES)
        IN  /\ calls' = Append(calls, QueryCall(status, body))
            /\ ENABLE_ACCESS' = decision.enable
            /\ total_watch_time_minutes' = decision.total
            /\ logCalls' = logCalls \o decision.logs
    /\ pc' = "fetch_policy"
    /\ UNCHANGED <<exit_code, JELLYFIN_TOKEN, USER_NAME,
                   JELLYFIN_MAX_WATCH_TIME_MINUTES, target_user_id,
                   current_policy, needs_update>>
    /\ UNCHANGED <<srvVars, prev, logVars>>

\* Lines 205-229.
FetchPolicy ==
    /\ pc = "fetch_policy"
    /\ \E status \in Statuses :
        LET user_data == IF status = 200 THEN srvUser ELSE EmptyObject
        IN  /\ calls' = Append(calls, GetUserCall(status, user_data))
            /\ IF status # 200
               THEN /\ logCalls' = Append(logCalls,
                            Msg("Error fetching user: ", ToString(status)))
                    /\ Exit(1)
                    /\ UNCHANGED <<current_policy, needs_update>>
               ELSE /\ current_policy' = Get(user_data, "Policy", EmptyObject)
                    /\ needs_update' = NeedsUpdate(ENABLE_ACCESS, current_policy')
                    /\ pc' = "update"
                    /\ UNCHANGED <<exit_code, logCalls>>
    /\ UNCHANGED <<JELLYFIN_TOKEN, USER_NAME, JELLYFIN_MAX_WATCH_TIME_MINUTES,
                   target_user_id, ENABLE_ACCESS, total_watch_time_minutes>>
    /\ UNCHANGED <<srvVars, prev, logVars>>

\* The update posted on every run.
UpdateAlways == TRUE

\* Line 232: if needs_update
UpdateNeeded == needs_update

\* Lines 231-250. The server answers the update with a status; it stores an
\* update it accepts, unless it is one that answers success without storing.
UpdatePolicy ==
    /\ pc = "update"
    /\ IF UpdateNeeded
       THEN \E status \in Statuses, stores \in BOOLEAN :
            LET payload == PolicyPayload(ENABLE_ACCESS)
            IN  /\ UpdateRejected(status) => ~stores
                /\ calls' = Append(calls, PolicyCall(status, payload, stores))
                /\ srvUser' = IF stores THEN ApplyPolicy(srvUser, payload) ELSE srvUser
                /\ IF UpdateRejected(status)
                   THEN /\ logCalls' = logCalls \o
                                << Msg("Error updating policy: ", ToString(status)),
                                   Msg("Response: ", "body") >>
                        /\ Exit(1)
                   ELSE /\ pc' = "report"
                        /\ UNCHANGED <<exit_code, logCalls>>
       ELSE /\ pc' = "report"
            /\ UNCHANGED <<exit_code, calls, logCalls, srvUser>>
    /\ UNCHANGED <<JELLYFIN_TOKEN, USER_NAME, JELLYFIN_MAX_WATCH_TIME_MINUTES,
                   target_user_id, ENABLE_ACCESS, total_watch_time_minutes,
                   current_policy, needs_update>>
    /\ UNCHANGED <<srvUsage, prev, logVars>>

\* Lines 252-260, and the end of the script.
Report ==
    /\ pc = "report"
    /\ logCalls' = Append(logCalls,
            Msg("User min / min - Access ",
                ToString(<<USER_NAME, total_watch_time_minutes,
                           JELLYFIN_MAX_WATCH_TIME_MINUTES,
                           IF ENABLE_ACCESS THEN "enabled" ELSE "disabled",
                           IF needs_update THEN "changed" ELSE "unchanged">>)))
    /\ Exit(0)
    /\ UNCHANGED <<JELLYFIN_TOKEN, USER_NAME, JELLYFIN_MAX_WATCH_TIME_MINUTES,
                   target_user_id, ENABLE_ACCESS, total_watch_time_minutes,
                   current_policy, needs_update, calls>>
    /\ UNCHANGED <<srvVars, prev, logVars>>

\* The process is gone: nothing of it remains but the server's state and the
\* log file. The variables of the run go back to their unset values.
ProcessEnds ==
    /\ pc = "exited"
    /\ pc' = "idle"
    /\ exit_code' = -1
    /\ target_user_id' = ""
    /\ ENABLE_ACCESS' = FALSE
    /\ total_watch_time_minutes' = None
    /\ current_policy' = EmptyObject
    /\ needs_update' = FALSE
    /\ calls' = <<>>
    /\ logCalls' = <<>>
    /\ prev' = Summary
    /\ UNCHANGED <<JELLYFIN_TOKEN, USER_NAME, JELLYFIN_MAX_WATCH_TIME_MINUTES>>
    /\ UNCHANGED <<srvVars, logVars>>

---------------------------------------------------------------------------
\* The world between two runs.

\* An administrator edits the account.
ExternalPolicyChange ==
    /\ pc = "idle"
    /\ \E user \in ServerUsers :
        /\ user # srvUser
        /\ srvUser' = user
    /\ prev' = [ok |-> FALSE]
    /\ UNCHANGED <<procVars, srvUsage, logVars>>

\* The account plays something: the plugin holds one more row for today.
PlaybackRecorded ==
    /\ pc = "idle"
    /\ "results" \in DOMAIN srvUsage
    /\ Len(srvUsage.results) < MaxRows
    /\ \E row \in PlaybackRows :
        srvUsage' = [srvUsage EXCEPT !.results = Append(@, row)]
    /\ prev' = [ok |-> FALSE]
    /\ UNCHANGED <<procVars, srvUser, logVars>>

\* Midnight: no row is of today any more.
MidnightReset ==
    /\ pc = "idle"
    /\ "results" \in DOMAIN srvUsage
    /\ srvUsage.results # <<>>
    /\ srvUsage' = [srvUsage EXCEPT !.results = <<>>]
    /\ prev' = [ok |-> FALSE]
    /\ UNCHANGED <<procVars, srvUser, logVars>>

---------------------------------------------------------------------------

LogIdle ==
    /\ logFile = <<>>
    /\ fileExists = FALSE
    /\ last_log_message = <<>>
    /\ stderr = <<>>
    /\ emitted = <<>>

\* No process: the variables of a run are unset.
ProcIdle ==
    /\ pc = "idle"
    /\ exit_code = -1
    /\ target_user_id = ""
    /\ ENABLE_ACCESS = FALSE
    /\ total_watch_time_minutes = None
    /\ current_policy = EmptyObject
    /\ needs_update = FALSE
    /\ calls = <<>>
    /\ logCalls = <<>>

\* The environment the scheduler gives every run.
Environment ==
    /\ JELLYFIN_TOKEN \in Tokens
    /\ USER_NAME \in UserNames
    /\ JELLYFIN_MAX_WATCH_TIME_MINUTES \in Thresholds

Init ==
    /\ ProcIdle
    /\ Environment
    /\ srvUser \in ServerUsers
    /\ srvUsage \in UsageBodies
    /\ prev = [ok |-> FALSE]
    /\ LogIdle

Next ==
    \/ StartRun
    \/ GetUsers
    \/ QueryUsage
    \/ FetchPolicy
    \/ UpdatePolicy
    \/ Report
    \/ ProcessEnds
    \/ ExternalPolicyChange
    \/ PlaybackRecorded
    \/ MidnightReset

Spec == Init /\ [][Next]_vars

---------------------------------------------------------------------------
\* log() and the log file. Text is a sequence of characters.

Whitespace == {" ", "\n", "\t"}

\* The messages log() is called with: plain ones, one that ends in a space,
\* one with a line break in it.
Messages ==
    { <<"a">>,
      <<"b">>,
      <<"a", " ">>,
      <<"a", "\n", "b">> }

\* f"[{timestamp}] {message}\n", the timestamp being "%Y-%m-%d %H:%M:%S".
LogLine(message) == <<"[", "D", " ", "T", "]", " ">> \o message \o <<"\n">>

\* f.readlines()[-1]: the text from behind the last line break that is not
\* the text's last character.
RECURSIVE LastLineFrom(_, _)
LastLineFrom(text, i) ==
    IF i = 0 THEN text
    ELSE IF text[i] = "\n" THEN SubSeq(text, i + 1, Len(text))
    ELSE LastLineFrom(text, i - 1)

LastLine(text) == LastLineFrom(text, Len(text) - 1)

\* str.strip()
RECURSIVE Strip(_)
Strip(text) ==
    IF text = <<>> THEN text
    ELSE IF Head(text) \in Whitespace THEN Strip(Tail(text))
    ELSE IF text[Len(text)] \in Whitespace
    THEN Strip(SubSeq(text, 1, Len(text) - 1))
    ELSE text

\* The first position of "] " in the text, 0 if there is none.
RECURSIVE SeparatorFrom(_, _)
SeparatorFrom(text, i) ==
    IF i >= Len(text) THEN 0
    ELSE IF text[i] = "]" /\ text[i + 1] = " " THEN i
    ELSE SeparatorFrom(text, i + 1)

Separator(text) == SeparatorFrom(text, 1)

\* Lines 38-56: the cache if it is set, else the message of the file's last
\* line, if the file is there, reads and its last line has a "] " in it.
\* The result is also what the cache becomes.
GetLastLogMessage(cache, exists, text, readFails) ==
    IF cache # <<>> THEN cache
    ELSE IF ~exists \/ readFails \/ text = <<>> THEN <<>>
    ELSE LET last_line == Strip(LastLine(text))
             at == Separator(last_line)
         IN  IF at = 0 THEN <<>>
             ELSE <<SubSeq(last_line, at + 2, Len(last_line))>>

\* Lines 59-77.
Log(message, readFails, writeFails) ==
    LET last_message ==
            GetLastLogMessage(last_log_message, fileExists, logFile, readFails)
    IN  IF last_message # <<message>>
        THEN IF ~writeFails
             THEN /\ logFile' = logFile \o LogLine(message)
                  /\ fileExists' = TRUE
                  /\ last_log_message' = <<message>>
                  /\ emitted' = Append(emitted, [message |-> message, to |-> "file"])
                  /\ UNCHANGED stderr
             ELSE /\ stderr' = Append(stderr, LogLine(message))
                  /\ last_log_message' = last_message
                  /\ emitted' = Append(emitted, [message |-> message, to |-> "stderr"])
                  /\ UNCHANGED <<logFile, fileExists>>
        ELSE /\ last_log_message' = last_message
             /\ UNCHANGED <<logFile, fileExists, stderr, emitted>>

\* Some code calls log(message); opening the file may fail.
LogMessage ==
    /\ Len(emitted) < MaxLogCalls
    /\ \E message \in Messages, readFails \in BOOLEAN, writeFails \in BOOLEAN :
        Log(message, readFails, writeFails)
    /\ UNCHANGED <<procVars, srvVars, prev>>

\* Line 35: a new process starts with an empty cache.
NewProcess ==
    /\ last_log_message' = <<>>
    /\ UNCHANGED <<logFile, fileExists, stderr, emitted>>
    /\ UNCHANGED <<procVars, srvVars, prev>>

LogInit ==
    /\ ProcIdle
    /\ JELLYFIN_TOKEN = "secret"
    /\ USER_NAME = "kid"
    /\ JELLYFIN_MAX_WATCH_TIME_MINUTES = 1
    /\ srvUser = EmptyObject
    /\ srvUsage = EmptyObject
    /\ prev = [ok |-> FALSE]
    /\ LogIdle

LogNext ==
    \/ LogMessage
    \/ NewProcess

LogSpec == LogInit /\ [][LogNext]_vars

---------------------------------------------------------------------------
\* What a state records of the run, read off the calls it made.

UsageQueried == Len(calls) >= 2
UsageStatus == calls[2].status
UsageBody == calls[2].body
PolicyFetched == Len(calls) >= 3 /\ calls[3].status = 200
\* The Policy of the account as the fetch returned it.
FetchedPolicy ==
    IF "Policy" \in DOMAIN calls[3].user THEN calls[3].user.Policy ELSE EmptyObject
PolicyPosts ==
    Cardinality({i \in 1 .. Len(calls) : calls[i].req = "POST /Users/{id}/Policy"})

\* The equivalence rule, with the defaults for absent keys.
AllFolders(policy) ==
    IF "EnableAllFolders" \in DOMAIN policy THEN policy.EnableAllFolders ELSE TRUE
Folders(policy) ==
    IF "EnabledFolders" \in DOMAIN policy THEN policy.EnabledFolders ELSE <<>>
Matches(enabled, policy) ==
    \/ enabled /\ AllFolders(policy)
    \/ ~enabled /\ ~AllFolders(policy) /\ Folders(policy) = <<>>

\* The column list of a response lacks PlayDuration.
LacksDuration(body) ==
    \/ "colums" \notin DOMAIN body
    \/ \A i \in 1 .. Len(body.colums) : body.colums[i] # "PlayDuration"

---------------------------------------------------------------------------
\* C1. Whenever the usage query succeeds and yields a total (a response
\* without rows included, whose total is 0), access is to be enabled exactly
\* when total seconds / 60 is below the threshold, whatever the threshold.
C1_EnabledIffUnderThreshold ==
    (UsageQueried /\ UsageStatus = 200 /\ total_watch_time_minutes.known)
        => (ENABLE_ACCESS <=>
                total_watch_time_minutes.seconds
                    < 60 * JELLYFIN_MAX_WATCH_TIME_MINUTES)

\* C2. A run that follows a run which ended with status 0 and whose update
\* the server stored, with the usage response and the threshold as they were
\* and the policy untouched in between, posts no policy update.
C2_SecondRunWritesNothing ==
    (prev.ok /\ (UsageQueried => UsageStatus = prev.status))
        => PolicyPosts = 0

\* A second run has ended without a write, after a first run that wrote.
C2_Witness ==
    /\ prev.ok
    /\ prev.posted
    /\ pc = "exited"
    /\ exit_code = 0
    /\ UsageStatus = prev.status
    /\ PolicyPosts = 0

\* C3. needs_update is false exactly when the fetched policy matches the
\* desired state: enabled and EnableAllFolders true (true if absent), or
\* disabled and EnableAllFolders false and EnabledFolders empty (empty if
\* absent).
C3_NeedsUpdateIffMismatch ==
    PolicyFetched =>
        (needs_update <=>
            ~( \/ ENABLE_ACCESS /\ AllFolders(FetchedPolicy)
               \/ /\ ~ENABLE_ACCESS
                  /\ ~AllFolders(FetchedPolicy)
                  /\ Folders(FetchedPolicy) = <<>> ))

\* Disabling is wanted and all folders are off already, but one folder is
\* still listed: an update is needed.
C3_Witness ==
    /\ PolicyFetched
    /\ ~ENABLE_ACCESS
    /\ FetchedPolicy = [EnableAllFolders |-> FALSE, EnabledFolders |-> <<"x">>]
    /\ needs_update

\* C4. A run posts the policy update at most once, and a run that is past
\* the update step has posted it exactly when it fetched the policy and
\* needs_update is true.
C4_OneWriteIffNeeded ==
    /\ PolicyPosts <= 1
    /\ PolicyPosts = 1 => PolicyFetched /\ needs_update
    /\ pc \in {"report", "exited"} /\ PolicyFetched /\ needs_update
            => PolicyPosts = 1

\* A run has ended after one write; its policy did not match.
C4_Witness ==
    /\ pc = "exited"
    /\ exit_code = 0
    /\ PolicyPosts = 1
    /\ ~Matches(ENABLE_ACCESS, FetchedPolicy)

\* C5. When a run ends with status 0 and the server stored the update it
\* accepted, the account's policy matches the desired state; and every
\* update sets EnableAllFolders to the desired state and carries
\* EnabledFolders, empty, exactly when disabling.
C5_PolicyConverges ==
    /\ ( /\ pc = "exited"
         /\ exit_code = 0
         /\ \A i \in 1 .. Len(calls) :
                calls[i].req = "POST /Users/{id}/Policy" => calls[i].applied )
            => LET policy == IF "Policy" \in DOMAIN srvUser
                             THEN srvUser.Policy ELSE EmptyObject
               IN  IF ENABLE_ACCESS
                   THEN AllFolders(policy)
                   ELSE ~AllFolders(policy) /\ Folders(policy) = <<>>
    /\ \A i \in 1 .. Len(calls) :
            calls[i].req = "POST /Users/{id}/Policy"
                => /\ calls[i].payload.EnableAllFolders = ENABLE_ACCESS
                   /\ "EnabledFolders" \in DOMAIN calls[i].payload <=> ~ENABLE_ACCESS
                   /\ ~ENABLE_ACCESS => calls[i].payload.EnabledFolders = <<>>

\* A run has ended with status 0 after disabling an account that had all
\* folders on and one folder listed.
C5_Witness ==
    /\ pc = "exited"
    /\ exit_code = 0
    /\ ~ENABLE_ACCESS
    /\ PolicyPosts = 1
    /\ calls[4].applied
    /\ FetchedPolicy = [EnableAllFolders |-> TRUE, EnabledFolders |-> <<"x">>]

\* C6. When the usage query comes back with a status other than 200, the run
\* goes on: access is to be enabled whatever the threshold, the total is
\* unknown, the policy is fetched next and reconciled as for enabling.
C6_FailPermissive ==
    (UsageQueried /\ UsageStatus # 200)
        => /\ ENABLE_ACCESS
           /\ ~total_watch_time_minutes.known
           /\ Len(calls) = 2 => pc = "fetch_policy"
           /\ pc = "exited" => Len(calls) >= 3 /\ calls[3].req = "GET /Users/{id}"
           /\ PolicyFetched => (needs_update <=> ~AllFolders(FetchedPolicy))

\* The query failed under a threshold no total is below, and the run ended
\* with status 0 having enabled the account.
C6_Witness ==
    /\ pc = "exited"
    /\ exit_code = 0
    /\ UsageStatus = 500
    /\ JELLYFIN_MAX_WATCH_TIME_MINUTES = -1
    /\ PolicyPosts = 1

\* C7. A run that has ended: without token or user name it ended with status
\* 1 and no call; with a users list that failed or does not hold the name,
\* with status 1 after that one call; with a policy fetch that failed, with
\* status 1 and no policy update; with an update answered by anything but
\* 200 or 204, with status 1; and with status 0 in every other case.
C7_ExitStatus ==
    pc = "exited" =>
        LET missing == JELLYFIN_TOKEN = "" \/ USER_NAME = ""
            noUser ==
                /\ Len(calls) >= 1
                /\ \/ calls[1].status # 200
                   \/ \A i \in 1 .. Len(calls[1].users) :
                        calls[1].users[i].Name # USER_NAME
            noPolicy == Len(calls) >= 3 /\ calls[3].status # 200
            noUpdate == Len(calls) >= 4 /\ calls[4].status \notin {200, 204}
        IN  /\ missing => exit_code = 1 /\ calls = <<>>
            /\ ~missing /\ noUser => exit_code = 1 /\ Len(calls) = 1
            /\ noPolicy => exit_code = 1 /\ Len(calls) = 3
            /\ noUpdate => exit_code = 1
            /\ ~(missing \/ noUser \/ noPolicy \/ noUpdate) => exit_code = 0

\* The server answered the policy update with 500 and the run ended with
\* status 1.
C7_Witness ==
    /\ pc = "exited"
    /\ exit_code = 1
    /\ Len(calls) = 4
    /\ calls[4].status = 500

\* C8. No two entries that log() puts out one after the other, to the file
\* or to standard error, in one process or across processes, carry the same
\* message.
C8_NoAdjacentDuplicates ==
    \A i \in 1 .. Len(emitted) - 1 : emitted[i].message # emitted[i + 1].message

\* The sum of the durations of the first n rows, as C9 states it.
RECURSIVE DurationOfRows(_, _, _)
DurationOfRows(results, position, n) ==
    IF n = 0 THEN 0
    ELSE DurationOfRows(results, position, n - 1)
         + ( IF Len(results[n]) >= position /\ FloatOf(results[n][position]).ok
             THEN FloatOf(results[n][position]).value
             ELSE 0 )

\* The rows whose value at the position is there and does not parse.
UnparsableRows(results, position) ==
    {n \in 1 .. Len(results) :
        Len(results[n]) >= position /\ ~FloatOf(results[n][position]).ok}

\* The position of PlayDuration in the columns, from 1.
DurationPosition(columns) ==
    CHOOSE k \in 1 .. Len(columns) :
        /\ columns[k] = "PlayDuration"
        /\ \A j \in 1 .. k - 1 : columns[j] # "PlayDuration"

C10_ShapeErrorDisables ==
    (UsageQueried /\ UsageStatus = 200 /\ LacksDuration(UsageBody))
        => /\ ~ENABLE_ACCESS
           /\ ~total_watch_time_minutes.known
           /\ Len(calls) = 2 => pc = "fetch_policy"
           /\ pc = "exited" => Len(calls) >= 3

\* C10, amended. The same for every such response that carries at least one
\* row.
C10_ShapeErrorWithRowsDisables ==
    ( /\ UsageQueried
      /\ UsageStatus = 200
      /\ LacksDuration(UsageBody)
      /\ "results" \in DOMAIN UsageBody
      /\ UsageBody.results # <<>> )
        => /\ ~ENABLE_ACCESS
           /\ ~total_watch_time_minutes.known
           /\ Len(calls) = 2 => pc = "fetch_policy"
           /\ pc = "exited" => Len(calls) >= 3

\* A response with one row and no column list; the run ended with status 0
\* having disabled the account.
C10_Witness ==
    /\ pc = "exited"
    /\ exit_code = 0
    /\ UsageStatus = 200
    /\ UsageBody = [results |-> << <<Num(60)>> >>]
    /\ ~ENABLE_ACCESS
    /\ PolicyPosts = 1

=============================================================================
